---- MODULE Spec2Model ----
(***************************************************************************)
(* ARCTL transition kernel (arctl/core/kernel.py, arctl/core/chronos.py).  *)
(*                                                                         *)
(* Units.  Times are integers in hundredths of a second, so that the       *)
(* Chronos thresholds of 60 s and 86400 s are 6000 and 8640000.  Metrics,  *)
(* smoothing_alpha, repetition_threshold and temperatures are integers in  *)
(* tenths (1.0 is One = 10); each product of the exponential moving        *)
(* average is rounded to the nearest tenth, ties to even, as each float    *)
(* operation rounds to the nearest representable value.                    *)
(***************************************************************************)
EXTENDS Integers, Sequences, FiniteSets, TLC

\* state: the lineage's SystemState; cfg: its ControllerConfig; tz: the UTC
\* offset of the local time zone of the process that runs step; peer: the
\* SystemState of a second lineage, which shares cfg; entries: the number of
\* STANDARD -> EMERGENCY transitions the lineage has performed; wrapper: an
\* ArctlWrapper (its cfg, its state, and the dictionary its last control call
\* returned); precision: the number of significant bits the arithmetic on
\* times keeps.
VARIABLES state, cfg, tz, peer, entries, wrapper, precision

vars == <<state, cfg, tz, peer, entries, wrapper, precision>>

\* ------------------------------------------------------------------ bounds
\* Wall-clock timestamps of the first cluster of calls are 0..MaxNear.
MaxNear == 7
\* A lineage that still carries at least min_step_interval of unapplied time
\* is not stepped any more once its logical_time has reached MaxLogical.
MaxLogical == 22
\* A lineage under sustained repetition is not stepped any more once its
\* logical_time has reached MaxSustained.
MaxSustained == 100
\* Each of two interleaved lineages is stepped until its logical_time has
\* reached MaxShared.
MaxShared == 9
\* A lineage called with wall-clock progress is not stepped any more once its
\* logical_time has reached MaxProgress.
MaxProgress == 20
\* An ArctlWrapper is not called any more once the logical_time of its state
\* has reached MaxWrapped.
MaxWrapped == 70

\* --------------------------------------------------------------- constants
One == 10
LagThreshold == 6000
GapThreshold == 8640000
InitialEnergy == 10
InitialTemperature == 7
FallbackTemperature == 1

Min(a, b) == IF a < b THEN a ELSE b
Max(a, b) == IF a > b THEN a ELSE b

\* Optional[SamplingConfig]: the empty sequence is None.
None == << >>
SamplingConfig(temperature) == << temperature >>

\* ----------------------------------------------------------- configuration
DefaultTemps ==
    [temp_standard |-> 7, temp_emergency |-> 12, temp_cooldown |-> 5, temp_fallback |-> 1]

\* PolicyConfig() with its default values.
DefaultPolicy ==
    [max_energy |-> 10, emergency_cost |-> 3, recharge_on_cooldown |-> 1,
     reset_recovery_amount |-> 1, smoothing_alpha |-> 3, repetition_threshold |-> 6,
     cooldown_duration |-> 3] @@ DefaultTemps

\* A short TimeConfig (0.02 s, 0.03 s, 0.04 s): the default one has the same
\* shape with (1, 10, 500).
FastTime == [min_step_interval |-> 2, max_step_interval |-> 3, deadlock_timeout |-> 4]

\* ControllerConfig(time=FastTime, policy=PolicyConfig(cooldown_duration=0.03))
CfgDefaultPolicy == [time |-> FastTime, policy |-> DefaultPolicy]

\* A small energy budget, instant smoothing and a configured FALLBACK
\* temperature other than the default.
CfgSmallBudget ==
    [time |-> FastTime,
     policy |-> [DefaultPolicy EXCEPT !.max_energy = 4, !.reset_recovery_amount = 2,
                                      !.smoothing_alpha = One, !.temp_fallback = 2]]

\* A TimeConfig whose max_step_interval is one day, so that a performed step
\* applies the whole wall-clock gap and leaves no debt behind.
WideTime ==
    [min_step_interval |-> 2, max_step_interval |-> GapThreshold, deadlock_timeout |-> 4]

\* The default budget with an emergency that costs more than half of it, so
\* that one STANDARD -> EMERGENCY -> COOLDOWN -> STANDARD cycle exhausts it.
CfgCostly ==
    [time |-> WideTime,
     policy |-> [DefaultPolicy EXCEPT !.emergency_cost = 6, !.smoothing_alpha = One]]

\* smoothing_alpha 0: the smoothed metrics keep their initial values.
CfgNoSmoothing ==
    [time |-> FastTime, policy |-> [DefaultPolicy EXCEPT !.smoothing_alpha = 0]]

Configs == {CfgDefaultPolicy, CfgSmallBudget, CfgCostly, CfgNoSmoothing}

\* ------------------------------------------------------------------ inputs
RawMetrics(entropy, divergence, repetition) ==
    [entropy |-> entropy, divergence |-> divergence, repetition |-> repetition]

Raws == {RawMetrics(5, 0, 3), RawMetrics(5, 0, 6), RawMetrics(9, 4, 9)}

\* Wall-clock timestamps handed to step: a cluster of rapid calls, calls a
\* minute later, calls a day after those, and a call another day later.
Times ==
    (0..MaxNear)
    \cup {LagThreshold, LagThreshold + 1, LagThreshold + 2}
    \cup {GapThreshold + LagThreshold, GapThreshold + LagThreshold + 1}
    \cup {2 * GapThreshold + LagThreshold + 1}

InitialNows == {0}

\* Local time zones of the process: UTC and UTC+1 (3600 s).
TimeZones == {0, 60 * LagThreshold}

\* ------------------------------------------------------------------- state
SystemState_initial(now) ==
    [s_entropy |-> 5, s_divergence |-> 0, s_repetition |-> 0,
     mode |-> "STANDARD",
     energy |-> InitialEnergy,
     last_call_time |-> now, logical_time |-> 0, mode_entry_time |-> 0, pending_dt |-> 0,
     time_state |-> "SYNC", context_note |-> << >>,
     reset_used |-> FALSE,
     active_config |-> SamplingConfig(InitialTemperature),
     step_performed |-> TRUE]

\* ------------------------------------------------------ float arithmetic
\* A Python float keeps 53 significant bits.  The times of the model are
\* whole numbers of a unit the arithmetic represents exactly, so with 53 bits
\* no operation on them loses a bit.
Float64Bits == 53

\* The same arithmetic with few bits, so that small values lose bits the way
\* large ones (or ones that are no whole number of the unit) do with 53.
RoundedBits == 3

\* The rounding of one arithmetic operation on times: x >= 0 to precision
\* significant bits, to the nearest value, ties to the even one.
Fl(x) ==
    IF precision >= 31 \/ x < 2 ^ precision THEN x
    ELSE LET e == CHOOSE k \in 1..(30 - precision) :
                      2 ^ (precision + k - 1) <= x /\ x < 2 ^ (precision + k)
             ulp == 2 ^ e
             q == x \div ulp
             r == x % ulp
             up == 2 * r > ulp \/ (2 * r = ulp /\ q % 2 = 1)
         IN  (IF up THEN q + 1 ELSE q) * ulp

\* ----------------------------------------------------------------- Chronos
\* A faulty variant: the LAG boundary compared with <= instead of <.
Chronos_state_late_lag(delta) ==
    IF delta <= LagThreshold THEN "SYNC"
    ELSE IF delta < GapThreshold THEN "LAG"
    ELSE "GAP"

\* A faulty variant: the GAP boundary compared with <= instead of <.
Chronos_state_late_gap(delta) ==
    IF delta < LagThreshold THEN "SYNC"
    ELSE IF delta <= GapThreshold THEN "LAG"
    ELSE "GAP"

Chronos_state(delta) ==
    IF delta < LagThreshold THEN "SYNC"
    ELSE IF delta < GapThreshold THEN "LAG"
    ELSE "GAP"

\* datetime.fromtimestamp(current_ts).strftime("%Y-%m-%d %H:%M"): the local
\* time of the zone, to the minute.
current_date(current_ts, zone) == (current_ts + zone) \div LagThreshold

\* The note is a text built from int(delta/60) and current_date; it is
\* modelled by those two numbers, the empty note by << >>.
Chronos_note(ts, delta, current_ts, zone) ==
    IF ts = "SYNC" THEN << >>
    ELSE << delta \div LagThreshold, current_date(current_ts, zone) >>

Chronos_sync(prev_ts, current_ts, zone) ==
    LET delta == Fl(current_ts - prev_ts)
        ts == Chronos_state(delta)
    IN  [time_state |-> ts, context_note |-> Chronos_note(ts, delta, current_ts, zone)]

\* ------------------------------------------------------------------ kernel
\* A faulty variant: no clock safety clamp.
ClampNow_trusting(absolute_now, prev) == absolute_now

ClampNow(absolute_now, prev) == Max(absolute_now, prev.last_call_time)

NewPending(prev, now) == Fl(prev.pending_dt + Fl(now - prev.last_call_time))

\* A faulty variant: the gate never buffers.
AntiStutter_never(new_pending, c) == new_pending < 0

AntiStutter(new_pending, c) == new_pending < c.time.min_step_interval

\* A faulty variant: the buffered path keeps the previous directive.
Buffered_keeps_directive(prev, now, new_pending) ==
    [prev EXCEPT !.last_call_time = now, !.pending_dt = new_pending,
                 !.step_performed = FALSE]

\* A faulty variant: the buffered path also clears this tick's Chronos fields.
Buffered_resync(prev, now, new_pending) ==
    [prev EXCEPT !.last_call_time = now, !.pending_dt = new_pending,
                 !.step_performed = FALSE, !.active_config = None,
                 !.time_state = "SYNC", !.context_note = << >>]

Buffered(prev, now, new_pending) ==
    [prev EXCEPT !.last_call_time = now, !.pending_dt = new_pending,
                 !.step_performed = FALSE, !.active_config = None]

\* A faulty variant: the whole debt is applied in one step.
Dt_uncapped(new_pending, c) == new_pending

Dt(new_pending, c) == Min(new_pending, c.time.max_step_interval)

\* A faulty variant: the logical clock restarts from the applied interval.
EffectiveLogicalNow_restart(prev, dt) == dt

EffectiveLogicalNow(prev, dt) == Fl(prev.logical_time + dt)

\* A faulty variant: the reset fires on every GAP (reset_used ignored).
ResetFires_every_gap(time_state, prev) == time_state = "GAP"

ResetFires(time_state, prev) == time_state = "GAP" /\ ~prev.reset_used

\* A faulty variant: the reset restores the full budget.
EnergyAfterReset_full(prev, time_state, c) ==
    IF ResetFires(time_state, prev) THEN c.policy.max_energy ELSE prev.energy

\* A faulty variant: the mode rules run on the energy of before the recharge.
EnergyAfterReset_late(prev, time_state, c) == prev.energy

EnergyAfterReset(prev, time_state, c) ==
    IF ResetFires(time_state, prev)
    THEN Min(prev.energy + c.policy.reset_recovery_amount, c.policy.max_energy)
    ELSE prev.energy

\* The rounding of one arithmetic operation: x, in hundredths, to the nearest
\* tenth, ties to even.
RoundTenth(x) ==
    IF x % One > 5 \/ (x % One = 5 /\ (x \div One) % 2 = 1)
    THEN x \div One + 1
    ELSE x \div One

\* A faulty variant: the weights of the previous and the raw value swapped.
Smooth_swapped(a, p, r) == RoundTenth(a * p) + RoundTenth((One - a) * r)

\* A faulty variant: the previous value is not decayed.
Smooth_undamped(a, p, r) == p + RoundTenth(a * r)

\* (1 - a) * p + a * r: each product is rounded, the sum of two tenths is
\* exact.
Smooth(a, p, r) == RoundTenth((One - a) * p) + RoundTenth(a * r)

FallbackStep(s_ent, s_div, s_rep, prev, now, eff, remaining_dt, sync, new_reset_used) ==
    [s_entropy |-> s_ent, s_divergence |-> s_div, s_repetition |-> s_rep,
     mode |-> "FALLBACK",
     energy |-> 0,
     last_call_time |-> now, logical_time |-> eff,
     mode_entry_time |-> prev.mode_entry_time,
     pending_dt |-> remaining_dt,
     time_state |-> sync.time_state, context_note |-> sync.context_note,
     reset_used |-> new_reset_used,
     active_config |-> SamplingConfig(FallbackTemperature),
     step_performed |-> TRUE]

\* A faulty variant: the exit threshold compared with >= instead of >.
TimedOut_inclusive(time_in_mode, limit) == time_in_mode >= limit

\* time_in_mode > deadlock_timeout, time_in_mode > cooldown_duration.
\* A faulty variant: no timeout ever expires.
TimedOut_never(time_in_mode, limit) == FALSE

TimedOut(time_in_mode, limit) == time_in_mode > limit

\* A faulty variant: EMERGENCY is entered whatever the energy.
CanAfford_always(next_energy, c) == next_energy >= 0

CanAfford(next_energy, c) == next_energy >= c.policy.emergency_cost

\* A faulty variant: leaving COOLDOWN restores the full budget.
Recharge_full(next_energy, c) == c.policy.max_energy

Recharge(next_energy, c) ==
    Min(c.policy.max_energy, next_energy + c.policy.recharge_on_cooldown)

\* A faulty variant: the repetition threshold compared with >= instead of >.
AboveThreshold_inclusive(s_rep, c) == s_rep >= c.policy.repetition_threshold

AboveThreshold(s_rep, c) == s_rep > c.policy.repetition_threshold

\* A faulty variant: a mode change under high entropy costs one more unit.
EnterMode_entropy_surcharge(prev, mode, eff, energy) ==
    [mode |-> mode, mode_entry_time |-> eff,
     energy |-> IF prev.s_entropy >= 9 /\ energy > 0 THEN energy - 1 ELSE energy]

\* A faulty variant: leaving EMERGENCY skips COOLDOWN.
EnterMode_skips_cooldown(prev, mode, eff, energy) ==
    [mode |-> IF mode = "COOLDOWN" THEN "STANDARD" ELSE mode,
     mode_entry_time |-> eff, energy |-> energy]

\* A faulty variant: a mode change that leaves mode_entry_time alone.
EnterMode_stale_entry(prev, mode, eff, energy) ==
    [mode |-> mode, mode_entry_time |-> prev.mode_entry_time, energy |-> energy]

\* A mode change: next_mode and next_mode_time = effective_logical_now.
EnterMode(prev, mode, eff, energy) ==
    [mode |-> mode, mode_entry_time |-> eff, energy |-> energy]

\* The mode rules: the next mode, mode_entry_time and energy.
ModeRule(prev, eff, s_rep, next_energy, c) ==
    LET time_in_mode == Fl(eff - prev.mode_entry_time)
        stay == [mode |-> prev.mode, mode_entry_time |-> prev.mode_entry_time,
                 energy |-> next_energy]
    IN  IF prev.mode = "EMERGENCY"
        THEN IF TimedOut(time_in_mode, c.time.deadlock_timeout)
             THEN EnterMode(prev, "COOLDOWN", eff, next_energy)
             ELSE stay
        ELSE IF prev.mode = "COOLDOWN"
        THEN IF TimedOut(time_in_mode, c.policy.cooldown_duration)
             THEN EnterMode(prev, "STANDARD", eff, Recharge(next_energy, c))
             ELSE stay
        ELSE IF AboveThreshold(s_rep, c)
             THEN IF CanAfford(next_energy, c)
                  THEN EnterMode(prev, "EMERGENCY", eff,
                                 next_energy - c.policy.emergency_cost)
                  ELSE EnterMode(prev, "FALLBACK", eff, next_energy)
             ELSE stay

temp_map(mode, c) ==
    CASE mode = "STANDARD" -> c.policy.temp_standard
      [] mode = "EMERGENCY" -> c.policy.temp_emergency
      [] mode = "COOLDOWN" -> c.policy.temp_cooldown
      [] mode = "FALLBACK" -> c.policy.temp_fallback
      [] OTHER -> c.policy.temp_standard

EnergyHardening(next_energy, c) == Max(0, Min(c.policy.max_energy, next_energy))

\* step(raw, prev, absolute_now, cfg) run by a process whose local time zone
\* is zone.
step_in(zone, raw, prev, absolute_now, c) ==
    LET now == ClampNow(absolute_now, prev)
        new_pending == NewPending(prev, now)
        dt == Dt(new_pending, c)
        remaining_dt == Fl(new_pending - dt)
        eff == EffectiveLogicalNow(prev, dt)
        sync == Chronos_sync(prev.last_call_time, now, zone)
        next_energy == EnergyAfterReset(prev, sync.time_state, c)
        new_reset_used == prev.reset_used \/ ResetFires(sync.time_state, prev)
        a == c.policy.smoothing_alpha
        s_ent == Smooth(a, prev.s_entropy, raw.entropy)
        s_div == Smooth(a, prev.s_divergence, raw.divergence)
        s_rep == Smooth(a, prev.s_repetition, raw.repetition)
        rule == ModeRule(prev, eff, s_rep, next_energy, c)
    IN  IF AntiStutter(new_pending, c)
        THEN Buffered(prev, now, new_pending)
        ELSE IF prev.mode = "FALLBACK"
        THEN FallbackStep(s_ent, s_div, s_rep, prev, now, eff, remaining_dt, sync,
                          new_reset_used)
        ELSE [s_entropy |-> s_ent, s_divergence |-> s_div, s_repetition |-> s_rep,
              mode |-> rule.mode,
              energy |-> EnergyHardening(rule.energy, c),
              last_call_time |-> now, logical_time |-> eff,
              mode_entry_time |-> rule.mode_entry_time,
              pending_dt |-> remaining_dt,
              time_state |-> sync.time_state, context_note |-> sync.context_note,
              reset_used |-> new_reset_used,
              active_config |-> SamplingConfig(temp_map(rule.mode, c)),
              step_performed |-> TRUE]

step(raw, prev, absolute_now, c) == step_in(tz, raw, prev, absolute_now, c)

\* ------------------------------------------------- adaptive_core and wrapper
\* The members of adaptive_core's OperationalMode, a plain Enum, are written
\* by their names; OperationalMode_value is the .value of a member.  A member
\* is equal to a member only, never to a string such as "FBK".
OperationalMode_value(member) ==
    CASE member = "STANDARD" -> "STD"
      [] member = "EMERGENCY" -> "EMG"
      [] member = "COOLDOWN" -> "CDN"
      [] member = "FALLBACK" -> "FBK"

adaptive_core_TEMP_MAP(mode) ==
    CASE mode = "STANDARD" -> 7
      [] mode = "EMERGENCY" -> 12
      [] mode = "COOLDOWN" -> 5
      [] mode = "FALLBACK" -> 1
      [] OTHER -> 1

adaptive_core_FALLBACK_CONFIG == SamplingConfig(1)

\* adaptive_core.ControllerConfig() with the short intervals of FastTime
\* (0.02 s, 0.03 s, 0.04 s, cooldown 0.03 s): the default one has the same
\* shape with (1, 10, 500) and cooldown 200.
adaptive_core_ControllerConfig ==
    [time |-> [min_step_interval |-> 2, max_step_interval |-> 3,
               deadlock_timeout |-> 4, full_reset_after_seconds |-> GapThreshold],
     policy |-> [max_energy |-> 10, emergency_cost |-> 3, recharge_on_cooldown |-> 1,
                 smoothing_alpha |-> 3, repetition_threshold |-> 6,
                 cooldown_duration |-> 3]]

adaptive_core_initial(now) ==
    [s_entropy |-> 5, s_divergence |-> 0, s_repetition |-> 0,
     mode |-> "STANDARD", energy |-> 10,
     last_call_time |-> now, logical_time |-> 0, mode_entry_time |-> 0,
     pending_dt |-> 0, last_interaction |-> now,
     active_config |-> SamplingConfig(7), step_performed |-> TRUE]

state_changed(prev, next_mode, next_energy, config_for_next) ==
    \/ next_mode # prev.mode
    \/ next_energy # prev.energy
    \/ config_for_next # prev.active_config

\* adaptive_core.step(raw, prev, absolute_now, cfg).
adaptive_core_step(raw, prev, absolute_now, c) ==
    LET now == Max(absolute_now, prev.last_call_time)
        delta_real == now - prev.last_call_time
        new_pending == prev.pending_dt + delta_real
        dt == Min(new_pending, c.time.max_step_interval)
        remaining_dt == new_pending - dt
        eff == prev.logical_time + dt
        time_since_interaction == now - prev.last_interaction
        reset_energy ==
            IF time_since_interaction >= c.time.full_reset_after_seconds
            THEN c.policy.max_energy ELSE prev.energy
        a == c.policy.smoothing_alpha
        s_ent == Smooth(a, prev.s_entropy, raw.entropy)
        s_div == Smooth(a, prev.s_divergence, raw.divergence)
        s_rep == Smooth(a, prev.s_repetition, raw.repetition)
        time_in_mode == eff - prev.mode_entry_time
        stay == [mode |-> prev.mode, mode_entry_time |-> prev.mode_entry_time,
                 energy |-> reset_energy]
        rule ==
            IF prev.mode = "EMERGENCY"
            THEN IF time_in_mode > c.time.deadlock_timeout
                 THEN [mode |-> "COOLDOWN", mode_entry_time |-> eff,
                       energy |-> reset_energy]
                 ELSE stay
            ELSE IF prev.mode = "COOLDOWN"
            THEN IF time_in_mode > c.policy.cooldown_duration
                 THEN [mode |-> "STANDARD", mode_entry_time |-> eff,
                       energy |-> Min(c.policy.max_energy,
                                      reset_energy + c.policy.recharge_on_cooldown)]
                 ELSE stay
            ELSE IF s_rep > c.policy.repetition_threshold
                 THEN IF reset_energy >= c.policy.emergency_cost
                      THEN [mode |-> "EMERGENCY", mode_entry_time |-> eff,
                            energy |-> reset_energy - c.policy.emergency_cost]
                      ELSE [mode |-> "FALLBACK", mode_entry_time |-> eff,
                            energy |-> reset_energy]
                 ELSE stay
        config_for_next == SamplingConfig(adaptive_core_TEMP_MAP(rule.mode))
    IN  IF new_pending < c.time.min_step_interval
        THEN [prev EXCEPT !.last_call_time = now, !.pending_dt = new_pending,
                          !.step_performed = FALSE, !.active_config = None]
        ELSE IF prev.mode = "FALLBACK"
        THEN [prev EXCEPT !.last_call_time = now, !.logical_time = eff,
                          !.pending_dt = remaining_dt,
                          !.active_config = adaptive_core_FALLBACK_CONFIG,
                          !.step_performed = TRUE]
        ELSE [s_entropy |-> s_ent, s_divergence |-> s_div, s_repetition |-> s_rep,
              mode |-> rule.mode,
              energy |-> Max(0, Min(c.policy.max_energy, rule.energy)),
              last_call_time |-> now, logical_time |-> eff,
              mode_entry_time |-> rule.mode_entry_time,
              pending_dt |-> remaining_dt,
              last_interaction |->
                  IF state_changed(prev, rule.mode, rule.energy, config_for_next)
                  THEN now ELSE prev.last_interaction,
              active_config |-> config_for_next,
              step_performed |-> TRUE]

\* ArctlWrapper(), constructed when time.time() returns time_time; last is
\* the dictionary its last control call returned.
ArctlWrapper_init(time_time) ==
    [cfg |-> adaptive_core_ControllerConfig,
     state |-> adaptive_core_initial(time_time),
     last |-> None]

\* ArctlWrapper.control(entropy, divergence, repetition), run when time.time()
\* returns time_time: the wrapper afterwards.
ArctlWrapper_control(self, entropy, divergence, repetition, time_time) ==
    LET raw == RawMetrics(entropy, divergence, repetition)
        new_state == adaptive_core_step(raw, self.state, time_time, self.cfg)
    IN  [cfg |-> self.cfg,
         state |-> new_state,
         last |-> [mode |-> OperationalMode_value(new_state.mode),
                   temperature |-> IF new_state.active_config # None
                                   THEN new_state.active_config[1] ELSE 0,
                   energy |-> new_state.energy,
                   fallback |-> new_state.mode = "FBK"]]

\* ----------------------------------------------------------- specification
\* A specification of the one lineage leaves every other variable as
\* SingleLineage sets it.
SingleLineage ==
    /\ peer = SystemState_initial(0)
    /\ entries = 0
    /\ wrapper = ArctlWrapper_init(0)
    /\ precision = Float64Bits

Init ==
    /\ cfg \in Configs
    /\ tz \in TimeZones
    /\ state \in {SystemState_initial(now) : now \in InitialNows}
    /\ SingleLineage

\* One call of step by the owner of the lineage, who replaces its state value
\* by the result.
Step(raw, absolute_now) ==
    /\ \/ state.logical_time < MaxLogical
       \/ state.pending_dt < cfg.time.min_step_interval
    /\ state' = step(raw, state, absolute_now, cfg)
    /\ UNCHANGED <<cfg, tz, peer, entries, wrapper, precision>>

Next == \E raw \in Raws, absolute_now \in Times : Step(raw, absolute_now)

Spec == Init /\ [][Next]_vars

\* ------------------------------------------------------------------ claims
\* The state returned by step(raw, state, absolute_now, cfg).
Result(raw, absolute_now) == step(raw, state, absolute_now, cfg)

\* The wall-clock gap of a call, after the clock safety clamp.
Gap(absolute_now) ==
    IF absolute_now > state.last_call_time THEN absolute_now - state.last_call_time ELSE 0

\* C1: in every reachable state 0 <= energy <= cfg.policy.max_energy.
C1_EnergyBounds == state.energy >= 0 /\ state.energy <= cfg.policy.max_energy

\* C2: FALLBACK absorption: every call of step on a state whose mode is
\* FALLBACK returns mode FALLBACK and energy 0.
C2_FallbackAbsorption ==
    state.mode = "FALLBACK" =>
        \A raw \in Raws, now \in Times :
            /\ Result(raw, now).mode = "FALLBACK"
            /\ Result(raw, now).energy = 0

\* C3: in every reachable state mode = FALLBACK implies energy = 0.
C3_FallbackEnergyZero == state.mode = "FALLBACK" => state.energy = 0

\* C4: in every reachable state
\* 0 <= pending_dt < max_step_interval + min_step_interval.
C4_PendingBounded ==
    /\ state.pending_dt >= 0
    /\ state.pending_dt < cfg.time.max_step_interval + cfg.time.min_step_interval

\* C5: logical_time never decreases: every call of step, also one with a
\* timestamp before last_call_time, returns logical_time >= prev.logical_time.
C5_LogicalTimeMonotone ==
    \A raw \in Raws, now \in Times :
        Result(raw, now).logical_time >= state.logical_time

C5_Witness ==
    /\ state.step_performed
    /\ state.logical_time > 0
    /\ state.pending_dt > 0
    /\ \E now \in Times : now < state.last_call_time

\* C6: anti-stutter gate: when pending_dt plus the clamped gap is below
\* min_step_interval, step returns prev with only last_call_time (clamped
\* now), pending_dt (the sum), step_performed (false) and active_config
\* (absent) replaced.
C6_AntiStutterFrame ==
    \A raw \in Raws, now \in Times :
        state.pending_dt + Gap(now) < cfg.time.min_step_interval =>
            Result(raw, now) =
                [state EXCEPT !.last_call_time = state.last_call_time + Gap(now),
                              !.pending_dt = state.pending_dt + Gap(now),
                              !.step_performed = FALSE,
                              !.active_config = << >>]

C6_Witness ==
    /\ ~state.step_performed
    /\ state.pending_dt > 0
    /\ state.active_config = << >>
    /\ state.mode = "EMERGENCY"
    /\ state.time_state = "LAG"

\* C7: single-use reset: reset_used never returns to false, and once it is
\* true no call raises energy except a COOLDOWN -> STANDARD transition, which
\* raises it by at most recharge_on_cooldown; a tick classified GAP grants
\* nothing.
C7_SingleUseReset ==
    state.reset_used =>
        \A raw \in Raws, now \in Times :
            /\ Result(raw, now).reset_used
            /\ Result(raw, now).energy > state.energy =>
                   /\ state.mode = "COOLDOWN"
                   /\ Result(raw, now).mode = "STANDARD"
                   /\ Result(raw, now).energy <=
                          state.energy + cfg.policy.recharge_on_cooldown

C7_Witness ==
    /\ state.reset_used
    /\ state.mode # "FALLBACK"
    /\ state.energy < cfg.policy.max_energy
    /\ \E now \in Times : Gap(now) >= GapThreshold

C10_ModeEntryIffModeChange ==
    \A raw \in Raws, now \in Times :
        /\ (Result(raw, now).mode_entry_time # state.mode_entry_time)
               <=> (Result(raw, now).mode # state.mode)
        /\ Result(raw, now).mode # state.mode =>
               Result(raw, now).mode_entry_time = Result(raw, now).logical_time

C10_Witness ==
    /\ state.mode = "COOLDOWN"
    /\ state.mode_entry_time = state.logical_time
    /\ state.pending_dt > 0

\* The SYNC/LAG/GAP classification of a wall-clock gap.
Classification(gap) ==
    IF gap < 6000 THEN "SYNC" ELSE IF gap < 8640000 THEN "LAG" ELSE "GAP"

\* The energy available to a performed call: prev.energy after the one-time
\* GAP reset, when this call is the one that triggers it.
Available(absolute_now) ==
    IF Gap(absolute_now) >= GapThreshold /\ ~state.reset_used
    THEN Min(state.energy + cfg.policy.reset_recovery_amount, cfg.policy.max_energy)
    ELSE state.energy

\* C11: determinism: two invocations of step with the same raw, prev,
\* absolute_now and cfg return the same state in every field, whichever
\* process runs them.
C11_Determinism ==
    \A raw \in Raws, now \in Times, z1 \in TimeZones, z2 \in TimeZones :
        step_in(z1, raw, state, now, cfg) = step_in(z2, raw, state, now, cfg)

\* C12: STANDARD -> EMERGENCY: a performed step from a STANDARD state whose
\* new smoothed repetition is above repetition_threshold and whose available
\* energy is at least emergency_cost returns mode EMERGENCY and the available
\* energy minus emergency_cost; at or below the threshold the mode stays
\* STANDARD.
C12_StandardToEmergency ==
    state.mode = "STANDARD" =>
        \A raw \in Raws, now \in Times :
            Result(raw, now).step_performed =>
                /\ ( /\ Result(raw, now).s_repetition > cfg.policy.repetition_threshold
                     /\ Available(now) >= cfg.policy.emergency_cost ) =>
                       /\ Result(raw, now).mode = "EMERGENCY"
                       /\ Result(raw, now).energy =
                              Available(now) - cfg.policy.emergency_cost
                /\ Result(raw, now).s_repetition <= cfg.policy.repetition_threshold =>
                       Result(raw, now).mode = "STANDARD"

\* C13: STANDARD -> FALLBACK: a performed step from a STANDARD state whose
\* new smoothed repetition is above repetition_threshold and whose available
\* energy is below emergency_cost returns mode FALLBACK; EMERGENCY is never
\* entered with available energy below emergency_cost.
C13_StandardToFallback ==
    state.mode = "STANDARD" =>
        \A raw \in Raws, now \in Times :
            /\ ( /\ Result(raw, now).step_performed
                 /\ Result(raw, now).s_repetition > cfg.policy.repetition_threshold
                 /\ Available(now) < cfg.policy.emergency_cost ) =>
                   Result(raw, now).mode = "FALLBACK"
            /\ Result(raw, now).mode = "EMERGENCY" =>
                   Available(now) >= cfg.policy.emergency_cost

C13_Witness ==
    /\ state.mode = "STANDARD"
    /\ state.energy > 0
    /\ state.energy < cfg.policy.emergency_cost
    /\ \E raw \in Raws, now \in Times : Result(raw, now).mode = "FALLBACK"

\* C14: EMERGENCY -> COOLDOWN happens on exactly the first performed tick at
\* which new logical_time - mode_entry_time > deadlock_timeout: a performed
\* tick from EMERGENCY returns COOLDOWN if the time in mode exceeds the
\* timeout and EMERGENCY otherwise (also when it equals the timeout), a
\* buffered tick stays, and no EMERGENCY state has already exceeded it.
C14_EmergencyToCooldown ==
    state.mode = "EMERGENCY" =>
        /\ state.logical_time - state.mode_entry_time <= cfg.time.deadlock_timeout
        /\ \A raw \in Raws, now \in Times :
               Result(raw, now).mode =
                   IF /\ Result(raw, now).step_performed
                      /\ Result(raw, now).logical_time - state.mode_entry_time
                             > cfg.time.deadlock_timeout
                   THEN "COOLDOWN"
                   ELSE "EMERGENCY"

C14_Witness ==
    /\ state.mode = "EMERGENCY"
    /\ state.logical_time - state.mode_entry_time = cfg.time.deadlock_timeout
    /\ state.step_performed

\* C15: COOLDOWN -> STANDARD happens on the first performed tick at which the
\* time in mode exceeds cooldown_duration, and that tick sets energy to
\* min(max_energy, available energy + recharge_on_cooldown); every other tick
\* from COOLDOWN stays in COOLDOWN and changes energy only by the one-time
\* GAP reset.
C15_CooldownToStandard ==
    state.mode = "COOLDOWN" =>
        /\ state.logical_time - state.mode_entry_time <= cfg.policy.cooldown_duration
        /\ \A raw \in Raws, now \in Times :
               IF /\ Result(raw, now).step_performed
                  /\ Result(raw, now).logical_time - state.mode_entry_time
                         > cfg.policy.cooldown_duration
               THEN /\ Result(raw, now).mode = "STANDARD"
                    /\ Result(raw, now).energy =
                           Min(cfg.policy.max_energy,
                               Available(now) + cfg.policy.recharge_on_cooldown)
               ELSE /\ Result(raw, now).mode = "COOLDOWN"
                    /\ Result(raw, now).energy =
                           IF Result(raw, now).step_performed
                           THEN Available(now)
                           ELSE state.energy

C15_Witness ==
    /\ state.mode = "COOLDOWN"
    /\ state.logical_time - state.mode_entry_time = cfg.policy.cooldown_duration
    /\ state.energy + cfg.policy.recharge_on_cooldown < cfg.policy.max_energy
    /\ \E raw \in Raws, now \in Times :
           /\ Result(raw, now).mode = "STANDARD"
           /\ Result(raw, now).energy = state.energy + cfg.policy.recharge_on_cooldown

\* C16: a call of step changes the mode only along STANDARD -> EMERGENCY,
\* STANDARD -> FALLBACK, EMERGENCY -> COOLDOWN and COOLDOWN -> STANDARD, one
\* edge per call.
C16_ModeEdges ==
    \A raw \in Raws, now \in Times :
        \/ Result(raw, now).mode = state.mode
        \/ << state.mode, Result(raw, now).mode >> \in
               { << "STANDARD", "EMERGENCY" >>, << "STANDARD", "FALLBACK" >>,
                 << "EMERGENCY", "COOLDOWN" >>, << "COOLDOWN", "STANDARD" >> }

\* An EMERGENCY state and a call whose applied interval exceeds
\* deadlock_timeout and cooldown_duration together.
C16_Witness ==
    /\ state.mode = "EMERGENCY"
    /\ \E raw \in Raws, now \in Times :
           /\ Result(raw, now).logical_time - state.logical_time >
                  cfg.time.deadlock_timeout + cfg.policy.cooldown_duration
           /\ Result(raw, now).mode = "COOLDOWN"

\* C17: clock regression: a call with absolute_now < prev.last_call_time
\* returns what the call with absolute_now = prev.last_call_time returns, with
\* last_call_time unchanged; last_call_time never decreases.
C17_ClockRegression ==
    \A raw \in Raws, now \in Times :
        /\ now < state.last_call_time =>
               /\ Result(raw, now) = Result(raw, state.last_call_time)
               /\ Result(raw, now).last_call_time = state.last_call_time
               /\ Result(raw, now).pending_dt + Result(raw, now).logical_time
                      = state.pending_dt + state.logical_time
        /\ Result(raw, now).last_call_time >= state.last_call_time

\* A state that a regressing call steps (its debt is at least
\* min_step_interval) and one that it buffers.
C17_Witness ==
    /\ state.last_call_time > LagThreshold
    /\ state.pending_dt >= cfg.time.min_step_interval
    /\ state.logical_time < MaxLogical
    /\ \E now \in Times : now < state.last_call_time

\* C18: temporal classification: a performed step returns time_state SYNC
\* with an empty note when the clamped gap is below 60 s, LAG with a note when
\* it is at least 60 s and below 86400 s, GAP with a note from 86400 s on; the
\* note holds the gap in minutes and the current date.
C18_Classification ==
    \A raw \in Raws, now \in Times :
        Result(raw, now).step_performed =>
            /\ Result(raw, now).time_state = Classification(Gap(now))
            /\ Result(raw, now).context_note =
                   IF Gap(now) < 6000
                   THEN << >>
                   ELSE << Gap(now) \div 6000,
                           (state.last_call_time + Gap(now) + tz) \div 6000 >>

\* A state from which calls with gaps of exactly 60 s less one tick and of
\* exactly 86400 s can be made.
C18_Witness ==
    /\ state.time_state = "LAG"
    /\ \E now \in Times : Gap(now) = GapThreshold
    /\ \E now \in Times : Gap(now) = GapThreshold - 1

\* C19 as stated: after every call, performed or buffered, time_state is the
\* classification of that call's wall-clock gap.
C19_RecomputedEveryTick ==
    \A raw \in Raws, now \in Times :
        Result(raw, now).time_state = Classification(Gap(now))

\* C19 as amended: time_state is the classification of the call's gap after
\* every performed step; a buffered call returns the time_state and the
\* context_note of the state it was given.
C19_RecomputedWhenPerformed ==
    \A raw \in Raws, now \in Times :
        IF Result(raw, now).step_performed
        THEN Result(raw, now).time_state = Classification(Gap(now))
        ELSE /\ Result(raw, now).time_state = state.time_state
             /\ Result(raw, now).context_note = state.context_note

\* A state classified LAG or GAP that a rapid call leaves buffered.
C19_Witness ==
    /\ state.time_state # "SYNC"
    /\ state.context_note # << >>
    /\ \E raw \in Raws, now \in Times :
           /\ ~Result(raw, now).step_performed
           /\ Gap(now) > 0

\* C20: in every reachable state active_config is absent exactly when
\* step_performed is false.
C20_DirectiveIffPerformed ==
    (state.active_config = << >>) <=> ~state.step_performed

\* A buffered tick in FALLBACK that follows a performed one.
C20_Witness ==
    /\ state.mode = "FALLBACK"
    /\ state.energy = 0
    /\ ~state.step_performed
    /\ state.active_config = << >>

\* C21: directive selection: every performed step returns the temperature
\* that cfg.policy configures for the resulting mode, also on every tick
\* spent in FALLBACK.
C21_DirectiveSelection ==
    \A raw \in Raws, now \in Times :
        Result(raw, now).step_performed =>
            Result(raw, now).active_config =
                << CASE Result(raw, now).mode = "STANDARD" -> cfg.policy.temp_standard
                     [] Result(raw, now).mode = "EMERGENCY" -> cfg.policy.temp_emergency
                     [] Result(raw, now).mode = "COOLDOWN" -> cfg.policy.temp_cooldown
                     [] Result(raw, now).mode = "FALLBACK" -> cfg.policy.temp_fallback >>

\* s is the value of (1 - a) * p + a * r at the precision of the model: it
\* differs from the exact value by at most the rounding of the two products,
\* half a tenth each.
IsWeightedMean(a, p, r, s) ==
    /\ One * s - ((One - a) * p + a * r) <= One
    /\ ((One - a) * p + a * r) - One * s <= One

\* C22: metric smoothing: on every performed step each smoothed metric
\* becomes (1 - alpha) * previous + alpha * raw, also from FALLBACK; with
\* alpha 0 it is unchanged and with alpha 1 it is the raw value.
C22_MetricSmoothing ==
    \A raw \in Raws, now \in Times :
        Result(raw, now).step_performed =>
            \A ch \in { << state.s_entropy, raw.entropy, Result(raw, now).s_entropy >>,
                        << state.s_divergence, raw.divergence, Result(raw, now).s_divergence >>,
                        << state.s_repetition, raw.repetition, Result(raw, now).s_repetition >> } :
                /\ IsWeightedMean(cfg.policy.smoothing_alpha, ch[1], ch[2], ch[3])
                /\ cfg.policy.smoothing_alpha = 0 => ch[3] = ch[1]
                /\ cfg.policy.smoothing_alpha = One => ch[3] = ch[2]

\* A FALLBACK state whose metrics a performed step changes.
C22_Witness ==
    /\ state.mode = "FALLBACK"
    /\ \E raw \in Raws, now \in Times :
           /\ Result(raw, now).step_performed
           /\ Result(raw, now).s_repetition # state.s_repetition
           /\ Result(raw, now).s_entropy # state.s_entropy

\* Raw metrics at the two ends of [0, 1].
BoundaryRaws == {RawMetrics(0, 0, 0), RawMetrics(One, One, One)}

\* C23: with raw metrics and smoothing_alpha in [0, 1], the three smoothed
\* metrics are in [0, 1] in every reachable state and after every call made
\* from it, also one with raw metrics at 0 or 1.
C23_MetricsInUnitInterval ==
    /\ {state.s_entropy, state.s_divergence, state.s_repetition} \subseteq 0..One
    /\ \A raw \in Raws \cup BoundaryRaws, now \in Times :
           { Result(raw, now).s_entropy, Result(raw, now).s_divergence,
             Result(raw, now).s_repetition } \subseteq 0..One

\* A state whose metrics raw values of 1 raise to 1 and raw values of 0 lower
\* to 0.
C23_Witness ==
    /\ state.s_repetition = 9
    /\ \E now \in Times :
           /\ Result(RawMetrics(One, One, One), now).s_repetition = One
           /\ Result(RawMetrics(0, 0, 0), now).s_entropy = 0

\* C24: SystemState.initial(now) yields mode STANDARD, energy equal to the
\* max_energy of the configuration the lineage is stepped with, smoothed
\* metrics (0.5, 0, 0), logical_time, mode_entry_time and pending_dt 0,
\* last_call_time now, reset_used false and time_state SYNC.
C24_InitialState ==
    \A now \in InitialNows \cup Times :
        /\ SystemState_initial(now).mode = "STANDARD"
        /\ SystemState_initial(now).energy = cfg.policy.max_energy
        /\ SystemState_initial(now).s_entropy = 5
        /\ SystemState_initial(now).s_divergence = 0
        /\ SystemState_initial(now).s_repetition = 0
        /\ SystemState_initial(now).logical_time = 0
        /\ SystemState_initial(now).mode_entry_time = 0
        /\ SystemState_initial(now).pending_dt = 0
        /\ SystemState_initial(now).last_call_time = now
        /\ ~SystemState_initial(now).reset_used
        /\ SystemState_initial(now).time_state = "SYNC"

C26_LogicalTimeBounded ==
    \A raw \in Raws, now \in Times :
        IF Result(raw, now).step_performed
        THEN /\ Result(raw, now).logical_time - state.logical_time
                    >= cfg.time.min_step_interval
             /\ Result(raw, now).logical_time - state.logical_time
                    <= cfg.time.max_step_interval
             /\ (Result(raw, now).logical_time - state.mode_entry_time)
                    - (state.logical_time - state.mode_entry_time)
                    <= cfg.time.max_step_interval
        ELSE Result(raw, now).logical_time = state.logical_time

\* An EMERGENCY state and a call whose gap is a day, under a
\* max_step_interval of 0.03 s.
C26_Witness ==
    /\ state.mode = "EMERGENCY"
    /\ cfg.time.max_step_interval < LagThreshold
    /\ \E raw \in Raws, now \in Times :
           /\ Gap(now) >= GapThreshold
           /\ Result(raw, now).mode = "EMERGENCY"
           /\ Result(raw, now).logical_time =
                  state.logical_time + cfg.time.max_step_interval

\* ------------------------------------------------- calm input specification
\* Equal weights for the previous and the raw value, and a low threshold.
CfgEqualWeights ==
    [time |-> FastTime,
     policy |-> [DefaultPolicy EXCEPT !.smoothing_alpha = 5, !.repetition_threshold = 3]]

InitCalm ==
    /\ cfg \in Configs \cup {CfgEqualWeights}
    /\ tz \in TimeZones
    /\ state \in {SystemState_initial(now) : now \in InitialNows}
    /\ SingleLineage

\* The raw metrics whose repetition does not exceed repetition_threshold.
CalmRaws == {raw \in Raws : raw.repetition <= cfg.policy.repetition_threshold}

\* A lineage that is only ever fed calm raw metrics, at any call timing.
NextCalm == \E raw \in CalmRaws, absolute_now \in Times : Step(raw, absolute_now)

SpecCalm == InitCalm /\ [][NextCalm]_vars

\* C27: when every raw repetition supplied is at most repetition_threshold,
\* the lineage stays in STANDARD and no call spends energy (energy is never
\* lowered below the smaller of its previous value and max_energy), for any
\* call timing, rapid calls included.
C27_CalmStaysStandard ==
    /\ state.mode = "STANDARD"
    /\ \A raw \in CalmRaws, now \in Times :
           /\ Result(raw, now).mode = "STANDARD"
           /\ Result(raw, now).energy >= Min(state.energy, cfg.policy.max_energy)

\* ----------------------------------------------------------- date range
\* The last whole day since the epoch for which datetime.fromtimestamp
\* returns a date: 9999-12-31; it raises from the next day on.
MaxDatetimeDay == 2932896

\* Timestamps given in whole days since the epoch (a timestamp of that size
\* in hundredths of a second is past the integers of the checker).
DayTimes == {0, 1, 2, MaxDatetimeDay, MaxDatetimeDay + 1}

\* The day of prev.last_call_time.
LastCallDay(prev) == prev.last_call_time \div GapThreshold

\* The wall-clock gap, after the clamp, of a call at the start of the given
\* day; a gap of more than two days is counted as two days, which is above
\* every min_step_interval.
DeltaToDay(prev, day) ==
    IF day <= LastCallDay(prev)
    THEN 0
    ELSE Min(day - LastCallDay(prev) - 1, 1) * GapThreshold
             + (GapThreshold - (prev.last_call_time % GapThreshold))

\* step(raw, prev, day * 86400.0, cfg) raises: the call is not buffered, so
\* Chronos.sync runs, and datetime.fromtimestamp is given a timestamp past
\* the last date.
step_raises(prev, day, c) ==
    /\ ~AntiStutter(prev.pending_dt + DeltaToDay(prev, day), c)
    /\ Max(day, LastCallDay(prev)) > MaxDatetimeDay

\* C28: the kernel never raises: step returns a state for every finite
\* timestamp, of any magnitude, on every branch.
C28_NeverRaises ==
    \A day \in DayTimes : ~step_raises(state, day, cfg)

\* --------------------------------------- sustained repetition specification
\* The default policy (emergency_cost 3, recharge_on_cooldown 1).
InitSustained ==
    /\ cfg = CfgDefaultPolicy
    /\ tz \in TimeZones
    /\ state \in {SystemState_initial(now) : now \in InitialNows}
    /\ SingleLineage

\* The raw metrics whose repetition exceeds repetition_threshold.
HighRaws == {raw \in Raws : raw.repetition > cfg.policy.repetition_threshold}

\* Wall-clock progress between two calls: a rapid call, a call after
\* max_step_interval, a call a day later.
Deltas == {1, 3, GapThreshold}

\* One call of step, later than the previous one, on a lineage that has not
\* reached FALLBACK.  A day-long gap is taken while the one-time reset is
\* still to be granted: later ones change the debt and the note only.
StepSustained(raw, delta) ==
    /\ state.logical_time < MaxSustained
    /\ state.mode # "FALLBACK"
    /\ delta = GapThreshold => ~state.reset_used
    /\ state' = step(raw, state, state.last_call_time + delta, cfg)
    /\ entries' = entries + (IF state.mode = "STANDARD" /\ state'.mode = "EMERGENCY"
                             THEN 1 ELSE 0)
    /\ UNCHANGED <<cfg, tz, peer, wrapper, precision>>

NextSustained == \E raw \in HighRaws, delta \in Deltas : StepSustained(raw, delta)

\* The caller keeps calling.
SpecSustained == InitSustained /\ [][NextSustained]_vars /\ WF_vars(NextSustained)

\* C29: sustained repetition ends in FALLBACK: under the default policy, a
\* lineage that keeps being called with wall-clock progress and with
\* repetition above the threshold eventually reaches FALLBACK.
C29_SustainedRepetitionEndsInFallback == <>(state.mode = "FALLBACK")

\* FALLBACK reached although the one-time GAP reset was granted on the way.
C29_Witness ==
    /\ state.mode = "FALLBACK"
    /\ state.reset_used
    /\ state.logical_time < MaxSustained

\* ------------------------------------------------------- two lineages
\* Smoothed entropy and divergence of a second lineage.
TwinMetrics == {<< 0, One >>, << One, 5 >>}

\* What the two lineages are compared on: the fields the claim names, with
\* the smoothed repetition, mode_entry_time and last_call_time they are
\* computed from.
Low(s) ==
    << s.mode, s.energy, s.active_config, s.logical_time, s.pending_dt, s.reset_used,
       s.s_repetition, s.mode_entry_time, s.last_call_time >>

\* C30: mode, energy and emitted temperature depend only on the repetition
\* channel: from two states that differ only in smoothed entropy and
\* divergence, two calls with the same repetition, timestamp and
\* configuration but different entropy and divergence return the same mode,
\* energy, active_config, logical_time, pending_dt and reset_used.
C30_RepetitionOnly ==
    \A twin \in TwinMetrics, raw \in Raws, now \in Times :
        Low(step(RawMetrics(One - raw.entropy, One - raw.divergence, raw.repetition),
                 [state EXCEPT !.s_entropy = twin[1], !.s_divergence = twin[2]],
                 now, cfg))
            = Low(Result(raw, now))

\* A state with high smoothed entropy from which a call changes the mode and
\* the energy.
C30_Witness ==
    /\ state.s_entropy = 9
    /\ state.mode = "STANDARD"
    /\ \E raw \in Raws, now \in Times :
           /\ Result(raw, now).mode = "EMERGENCY"
           /\ Result(raw, now).energy < state.energy

\* ------------------------------------------------ interleaved lineages
\* Two lineages that start at different times and share the configuration.
InitLineages ==
    /\ cfg \in {CfgDefaultPolicy, CfgCostly}
    /\ tz \in TimeZones
    /\ state = SystemState_initial(0)
    /\ peer = SystemState_initial(1)
    /\ entries = 0
    /\ wrapper = ArctlWrapper_init(0)
    /\ precision = Float64Bits

\* The inputs of the interleaved calls.
LineageRaws == {RawMetrics(5, 0, 3), RawMetrics(9, 4, 9)}
LineageTimes == {1, 2, 3, 5, LagThreshold}

\* A faulty variant: the last call time is kept in one place for all
\* lineages.
StepPeer_shared_clock(raw, absolute_now) ==
    /\ peer.logical_time < MaxShared
    /\ peer' = step(raw, peer, absolute_now, cfg)
    /\ state' = [state EXCEPT !.last_call_time = Max(@, absolute_now)]
    /\ UNCHANGED <<cfg, tz, entries, wrapper, precision>>

\* One call of step by the owner of the second lineage.
StepPeer(raw, absolute_now) ==
    /\ peer.logical_time < MaxShared
    /\ peer' = step(raw, peer, absolute_now, cfg)
    /\ UNCHANGED <<cfg, tz, state, entries, wrapper, precision>>

\* One call of step by the owner of the first lineage.
StepOwn(raw, absolute_now) ==
    /\ state.logical_time < MaxShared
    /\ state' = step(raw, state, absolute_now, cfg)
    /\ UNCHANGED <<cfg, tz, peer, entries, wrapper, precision>>

\* The calls of the two owners, interleaved in any order.
NextLineages ==
    \E raw \in LineageRaws, absolute_now \in LineageTimes :
        \/ StepOwn(raw, absolute_now)
        \/ StepPeer(raw, absolute_now)

SpecLineages == InitLineages /\ [][NextLineages]_vars

C32_GapLeavesMode ==
    \A raw \in Raws, now \in Times :
        /\ (state.mode = "EMERGENCY" /\ Gap(now) > cfg.time.deadlock_timeout)
               => Result(raw, now).mode = "COOLDOWN"
        /\ (state.mode = "COOLDOWN" /\ Gap(now) > cfg.policy.cooldown_duration)
               => Result(raw, now).mode = "STANDARD"

\* ------------------------------------------- recharge before affordability
\* C33: the one-time GAP recharge is applied before the affordability check
\* of the same tick: a STANDARD state with reset_used false and energy equal
\* to emergency_cost - reset_recovery_amount that receives a GAP tick whose
\* smoothed repetition is above the threshold enters EMERGENCY with energy 0,
\* not FALLBACK.
C33_RechargeBeforeAffordability ==
    \A raw \in Raws, now \in Times :
        (/\ state.mode = "STANDARD"
         /\ ~state.reset_used
         /\ state.energy = cfg.policy.emergency_cost - cfg.policy.reset_recovery_amount
         /\ Result(raw, now).step_performed
         /\ Result(raw, now).time_state = "GAP"
         /\ Result(raw, now).s_repetition > cfg.policy.repetition_threshold)
            => /\ Result(raw, now).mode = "EMERGENCY"
               /\ Result(raw, now).energy = 0

\* A STANDARD lineage one recharge short of an emergency, and a GAP tick
\* that takes it to EMERGENCY on the recharged energy.
C33_Witness ==
    /\ state.mode = "STANDARD"
    /\ ~state.reset_used
    /\ state.energy = cfg.policy.emergency_cost - cfg.policy.reset_recovery_amount
    /\ \E raw \in Raws, now \in Times :
          /\ Result(raw, now).time_state = "GAP"
          /\ Result(raw, now).reset_used
          /\ Result(raw, now).mode = "EMERGENCY"
          /\ Result(raw, now).energy = 0

\* ------------------------------------------ wall-clock progress specification
InitProgress ==
    /\ cfg \in {CfgDefaultPolicy, CfgSmallBudget, CfgCostly}
    /\ tz \in TimeZones
    /\ state \in {SystemState_initial(now) : now \in InitialNows}
    /\ SingleLineage

\* Wall-clock progress between two calls: a rapid call, a call after
\* max_step_interval, a call later than that.
ProgressDeltas == {1, 3, 5}

\* One call of step, later than the previous one, with any metrics.
StepProgress(raw, delta) ==
    /\ state.logical_time < MaxProgress
    /\ state' = step(raw, state, state.last_call_time + delta, cfg)
    /\ UNCHANGED <<cfg, tz, peer, entries, wrapper, precision>>

NextProgress == \E raw \in Raws, delta \in ProgressDeltas : StepProgress(raw, delta)

\* The calls keep arriving.
SpecProgress == InitProgress /\ [][NextProgress]_vars /\ WF_vars(NextProgress)

\* C34: EMERGENCY is never permanent while calls keep arriving with
\* wall-clock progress: whatever the metrics, a lineage in EMERGENCY
\* eventually moves to COOLDOWN, and a lineage in COOLDOWN eventually moves
\* to STANDARD (for a mode whose timeout lies within the bound of the run).
C34_EmergencyNotPermanent ==
    /\ (/\ state.mode = "EMERGENCY"
        /\ state.mode_entry_time + cfg.time.deadlock_timeout < MaxProgress)
           ~> (state.mode = "COOLDOWN")
    /\ (/\ state.mode = "COOLDOWN"
        /\ state.mode_entry_time + cfg.policy.cooldown_duration < MaxProgress)
           ~> (state.mode = "STANDARD")

\* A lineage back in STANDARD after one whole cycle (10 - 3 + 1 = 8), under
\* repetition that is still above the threshold.
C34_Witness ==
    /\ cfg = CfgDefaultPolicy
    /\ state.mode = "STANDARD"
    /\ state.energy = 8
    /\ state.s_repetition > cfg.policy.repetition_threshold

\* ------------------------------------------------------------ energy economy
\* What one call does, read off the state before it and the state it returns.
CooldownExit(r) == state.mode = "COOLDOWN" /\ r.mode = "STANDARD"
EmergencyEntry(r) == state.mode = "STANDARD" /\ r.mode = "EMERGENCY"
FirstGapTick(r) == ~state.reset_used /\ r.reset_used
FallbackTick(r) == state.mode = "FALLBACK" /\ r.step_performed

C40_AtMostFiveEmergencies == entries <= 5

\* The fifth emergency, paid with the one-time recharge.
C40_Witness == entries = 5 /\ state.mode = "EMERGENCY" /\ state.reset_used

\* ------------------------------------------------------ wrapper specification
InitWrapper ==
    /\ cfg = CfgDefaultPolicy
    /\ tz = 0
    /\ state = SystemState_initial(0)
    /\ peer = SystemState_initial(0)
    /\ entries = 0
    /\ wrapper = ArctlWrapper_init(0)
    /\ precision = Float64Bits

\* The repetition the caller measures, and the progress of time.time()
\* between two calls: 0.01 s, 0.03 s, a day.
WrapperRepetitions == {2, 9}
WrapperDeltas == {1, 3, GapThreshold}

\* One call of control.  The calls span less than two days.
Control(repetition, delta) ==
    /\ wrapper.state.logical_time < MaxWrapped
    /\ delta = GapThreshold => wrapper.state.last_call_time < GapThreshold
    /\ wrapper' = ArctlWrapper_control(wrapper, 5, 0, repetition,
                                       wrapper.state.last_call_time + delta)
    /\ UNCHANGED <<state, cfg, tz, peer, entries, precision>>

NextWrapper ==
    \E repetition \in WrapperRepetitions, delta \in WrapperDeltas :
        Control(repetition, delta)

SpecWrapper == InitWrapper /\ [][NextWrapper]_vars

\* C37: the dictionary control returns has fallback true exactly when the
\* mode of the wrapper's state after the call is FALLBACK.
C37_FallbackReported ==
    wrapper.last # None =>
        (wrapper.last.fallback <=> wrapper.state.mode = "FALLBACK")

\* C38: adaptive_core's step updates last_interaction if and only if the
\* control state meaningfully changed (the mode, the energy or the
\* temperature of the mode differs from the previous performed step's): it
\* is the time of the call after a change, and it is left alone otherwise, in
\* particular by a performed step that follows a buffered tick and changes
\* neither mode, energy nor temperature.
C38_LastInteractionTracksChange ==
    \A repetition \in WrapperRepetitions, delta \in WrapperDeltas :
        LET prev == wrapper.state
            now == prev.last_call_time + delta
            r == adaptive_core_step(RawMetrics(5, 0, repetition), prev, now, wrapper.cfg)
            changed == \/ r.mode # prev.mode
                       \/ r.energy # prev.energy
                       \/ adaptive_core_TEMP_MAP(r.mode) # adaptive_core_TEMP_MAP(prev.mode)
        IN  r.last_interaction = IF changed THEN now ELSE prev.last_interaction

\* ---------------------------------------------- rounded time specification
\* A TimeConfig whose intervals have more bits than RoundedBits keeps.
CfgRounded ==
    [time |-> [min_step_interval |-> 10, max_step_interval |-> 12,
               deadlock_timeout |-> 16],
     policy |-> DefaultPolicy]

\* The timestamps a caller can pass: the values of RoundedBits significant
\* bits, to 0.32 s.
RoundedTimes == (0..8) \cup {10, 12, 14, 16, 20, 24, 28, 32}

InitRounded ==
    /\ cfg = CfgRounded
    /\ tz = 0
    /\ state = SystemState_initial(0)
    /\ peer = SystemState_initial(0)
    /\ entries = 0
    /\ wrapper = ArctlWrapper_init(0)
    /\ precision = RoundedBits

NextRounded == \E raw \in Raws, absolute_now \in RoundedTimes : Step(raw, absolute_now)

SpecRounded == InitRounded /\ [][NextRounded]_vars

\* C35: buffered time is never lost: a call at which the wall-clock time
\* accumulated since the last performed step reaches min_step_interval
\* performs a step.  Stated for the calls that follow the initial state
\* (logical_time 0: no step performed since SystemState.initial(0)), where the
\* accumulated time is the clamped timestamp itself.
C35_BufferedTimeNotLost ==
    \A raw \in Raws, now \in RoundedTimes :
        (/\ state.logical_time = 0
         /\ Max(now, state.last_call_time) >= cfg.time.min_step_interval)
            => Result(raw, now).step_performed

\* C39: time conservation: in every state reachable from
\* SystemState.initial(0), logical_time + pending_dt = last_call_time - 0, and
\* pending_dt >= 0.
C39_TimeConservation ==
    /\ state.logical_time + state.pending_dt = state.last_call_time - 0
    /\ state.pending_dt >= 0

====
